---- MODULE Spec2Model ----
(***************************************************************************)
(* Model of xml-to-json-parser/xml_parser.py: the conversion of a Draw.io  *)
(* diagram document into a containment forest plus a connection list.      *)
(*                                                                         *)
(* A document is a record of what ET.parse and the find() calls can see:   *)
(* whether the markup is well formed, whether .//mxGraphModel/root exists, *)
(* what the <diagram> child of the document root looks like, and the       *)
(* sequence of mxCell records under the graph-model root, in document      *)
(* order.  Cell ids are the cell's position (0 = no id attribute), labels  *)
(* are sequences of tokens ("a" a letter, "sp" a blank, "br" the markup    *)
(* "<br>"), and coordinates are small naturals.                            *)
(***************************************************************************)
EXTENDS Integers, Sequences, FiniteSets, TLC

VARIABLES doc, pc, nodes, hierarchical_tree, cleaned, edges, result, stdout, exit_code

vars == <<doc, pc, nodes, hierarchical_tree, cleaned, edges, result, stdout, exit_code>>

(***************************************************************************)
(* The state of the other programs of the repository.  Each program has    *)
(* its own specification; a specification holds the variables of the       *)
(* programs it does not run at their idle values.                          *)
(*   tools/api_server.py, /run-terraform:    api_pc, host, request, tmpdir, *)
(*                                           process, response             *)
(*   tf_to_xml_converter.generate_drawio_xml: gen_pc, gen_args, attempt,   *)
(*                                           replies, slept, xml_content   *)
(*   master-script.py and the scripts it runs: m_pc, dataset, repos, p1,   *)
(*                                           conv, uni, steps              *)
(***************************************************************************)
VARIABLES api_pc, host, request, tmpdir, process, response

VARIABLES gen_pc, gen_args, attempt, replies, slept, xml_content

VARIABLES m_pc, dataset, repos, p1, conv, uni, steps

apiVars == <<api_pc, host, request, tmpdir, process, response>>

genVars == <<gen_pc, gen_args, attempt, replies, slept, xml_content>>

pipeVars == <<m_pc, dataset, repos, p1, conv, uni, steps>>

allVars == <<vars, apiVars, genVars, pipeVars>>

(***************************************************************************)
(* Bounds of the input space.                                              *)
(***************************************************************************)
MaxCells == 3

Coords == 0..1

Sizes == 0..1

CellIdx == 1..MaxCells

(***************************************************************************)
(* Raw attribute values of an mxGeometry element.                          *)
(***************************************************************************)
Num(n) == [k |-> "num", v |-> n]

Absent == [k |-> "absent", v |-> 0]

Bad == [k |-> "bad", v |-> 0]

NoGeo == [has |-> FALSE, x |-> Absent, y |-> Absent, width |-> Absent, height |-> Absent]

Box(x, y, w, h) == [has |-> TRUE, x |-> Num(x), y |-> Num(y), width |-> Num(w), height |-> Num(h)]

VertexCell(id, vertex, value, geo) ==
    [id |-> id, vertex |-> vertex, edge |-> FALSE, value |-> value, geo |-> geo,
     source |-> 0, target |-> 0]

EdgeCell(id, source, target) ==
    [id |-> id, vertex |-> FALSE, edge |-> TRUE, value |-> <<>>, geo |-> NoGeo,
     source |-> source, target |-> target]

(***************************************************************************)
(* float(geo.get(name, 0)): an absent attribute reads as 0, a non-numeric  *)
(* one raises ValueError.                                                  *)
(***************************************************************************)
Coercible(a) == a.k # "bad"

Float(a) == IF a.k = "num" THEN a.v ELSE 0

NoneGeometry == [ok |-> FALSE, x |-> 0, y |-> 0, width |-> 0, height |-> 0]

\* Variant: a non-numeric attribute is read as 0 instead of rejecting the cell.
parse_geometry_lenient(cell) ==
    IF ~cell.geo.has THEN NoneGeometry
    ELSE [ok |-> TRUE, x |-> Float(cell.geo.x), y |-> Float(cell.geo.y),
          width |-> Float(cell.geo.width), height |-> Float(cell.geo.height)]

parse_geometry(cell) ==
    IF ~cell.geo.has THEN NoneGeometry
    ELSE IF /\ Coercible(cell.geo.x) /\ Coercible(cell.geo.y)
            /\ Coercible(cell.geo.width) /\ Coercible(cell.geo.height)
         THEN [ok |-> TRUE, x |-> Float(cell.geo.x), y |-> Float(cell.geo.y),
               width |-> Float(cell.geo.width), height |-> Float(cell.geo.height)]
         ELSE NoneGeometry

\* Variant: only the child's corner is tested, its extent is forgotten.
is_contained_corner(child_geo, parent_geo) ==
    /\ child_geo.x >= parent_geo.x
    /\ child_geo.y >= parent_geo.y
    /\ child_geo.x <= parent_geo.x + parent_geo.width
    /\ child_geo.y <= parent_geo.y + parent_geo.height

is_contained(child_geo, parent_geo) ==
    /\ child_geo.x >= parent_geo.x
    /\ child_geo.y >= parent_geo.y
    /\ child_geo.x + child_geo.width <= parent_geo.x + parent_geo.width
    /\ child_geo.y + child_geo.height <= parent_geo.y + parent_geo.height

(***************************************************************************)
(* Label normalisation: value.strip().replace("<br>", " ").                *)
(***************************************************************************)
RECURSIVE LStrip(_)
LStrip(s) == IF s # <<>> /\ Head(s) = "sp" THEN LStrip(Tail(s)) ELSE s

RECURSIVE RStrip(_)
RStrip(s) == IF s # <<>> /\ s[Len(s)] = "sp" THEN RStrip(SubSeq(s, 1, Len(s) - 1)) ELSE s

Strip(s) == RStrip(LStrip(s))

ReplaceBr(s) == [i \in 1..Len(s) |-> IF s[i] = "br" THEN "sp" ELSE s[i]]

NormalizeLabel(value) == ReplaceBr(Strip(value))

(***************************************************************************)
(* The nodes dict: a sequence of node records in insertion order, keyed by *)
(* the id field.  children holds the ids of the node dicts appended to it. *)
(***************************************************************************)
NodeIds(ns) == [i \in 1..Len(ns) |-> ns[i].id]

InNodes(ns, id) == \E i \in 1..Len(ns) : ns[i].id = id

IndexOf(ns, id) == CHOOSE i \in 1..Len(ns) : ns[i].id = id

Node(ns, id) == ns[IndexOf(ns, id)]

PutNode(ns, n) ==
    IF InNodes(ns, n.id) THEN [ns EXCEPT ![IndexOf(ns, n.id)] = n] ELSE Append(ns, n)

NewNode(cell, geometry) ==
    [id |-> cell.id, label |-> NormalizeLabel(cell.value),
     geometry |-> [x |-> geometry.x, y |-> geometry.y,
                   width |-> geometry.width, height |-> geometry.height],
     hasGeometry |-> TRUE, children |-> <<>>]

LoadCell(cell, ns) ==
    IF cell.vertex /\ cell.value # <<>>
    THEN LET geometry == parse_geometry(cell)
         IN  IF cell.id # 0 /\ geometry.ok THEN PutNode(ns, NewNode(cell, geometry)) ELSE ns
    ELSE ns

RECURSIVE ExtractVertices(_, _, _)
ExtractVertices(cells, i, ns) ==
    IF i > Len(cells) THEN ns ELSE ExtractVertices(cells, i + 1, LoadCell(cells[i], ns))

(***************************************************************************)
(* Pass 2: the tightest containing node of every node.                     *)
(***************************************************************************)
Area(g) == g.width * g.height

RECURSIVE PotentialParents(_, _, _)
PotentialParents(ns, child_id, j) ==
    IF j > Len(ns) THEN <<>>
    ELSE LET rest == PotentialParents(ns, child_id, j + 1)
         IN  IF ns[j].id # child_id /\ is_contained(Node(ns, child_id).geometry, ns[j].geometry)
             THEN <<ns[j].id>> \o rest
             ELSE rest

\* Variant: the key also counts the children the candidate already has.
ParentKeyCrowded(ns, parent_id) ==
    Area(Node(ns, parent_id).geometry) + Len(Node(ns, parent_id).children)

ParentKey(ns, parent_id) == Area(Node(ns, parent_id).geometry)

\* Variant: a later candidate of equal key replaces the best one so far.
RECURSIVE MinFromLast(_, _, _, _)
MinFromLast(ns, cands, k, best) ==
    IF k > Len(cands) THEN best
    ELSE MinFromLast(ns, cands, k + 1,
                     IF ParentKey(ns, cands[k]) <= ParentKey(ns, best) THEN cands[k] ELSE best)

RECURSIVE MinFrom(_, _, _, _)
MinFrom(ns, cands, k, best) ==
    IF k > Len(cands) THEN best
    ELSE MinFrom(ns, cands, k + 1,
                 IF ParentKey(ns, cands[k]) < ParentKey(ns, best) THEN cands[k] ELSE best)

BestParent(ns, cands) == MinFrom(ns, cands, 2, cands[1])

AppendChild(ns, parent_id, child_id) ==
    [ns EXCEPT ![IndexOf(ns, parent_id)].children = Append(@, child_id)]

\* Variant: the child is appended to every containing node, not only the best.
RECURSIVE AppendToAll(_, _, _, _)
AppendToAll(ns, parents, k, child_id) ==
    IF k > Len(parents) THEN ns
    ELSE AppendToAll(AppendChild(ns, parents[k], child_id), parents, k + 1, child_id)

LinkChildAll(ns, child_id) == AppendToAll(ns, PotentialParents(ns, child_id, 1), 1, child_id)

LinkChild(ns, child_id) ==
    LET potential_parents == PotentialParents(ns, child_id, 1)
    IN  IF potential_parents # <<>>
        THEN AppendChild(ns, BestParent(ns, potential_parents), child_id)
        ELSE ns

RECURSIVE ResolveFrom(_, _, _)
ResolveFrom(ns, all_node_ids, i) ==
    IF i > Len(all_node_ids) THEN ns
    ELSE ResolveFrom(LinkChild(ns, all_node_ids[i]), all_node_ids, i + 1)

ResolveContainment(ns) == ResolveFrom(ns, NodeIds(ns), 1)

(***************************************************************************)
(* Roots: the nodes whose id is in no children list, in dict order.        *)
(***************************************************************************)
ChildIds(ns) == UNION {{ns[i].children[k] : k \in 1..Len(ns[i].children)} : i \in 1..Len(ns)}

RECURSIVE RootsFrom(_, _, _)
RootsFrom(ns, child_ids, i) ==
    IF i > Len(ns) THEN <<>>
    ELSE IF ns[i].id \notin child_ids
         THEN <<ns[i].id>> \o RootsFrom(ns, child_ids, i + 1)
         ELSE RootsFrom(ns, child_ids, i + 1)

HierarchicalTree(ns) == RootsFrom(ns, ChildIds(ns), 1)

(***************************************************************************)
(* clean_tree: del node["geometry"] on every node of the list, then on its *)
(* children.  The accumulator carries the dict, the ids visited in order   *)
(* and whether a del has raised KeyError (which ends the traversal).       *)
(***************************************************************************)
DelGeometry(ns, id) == [ns EXCEPT ![IndexOf(ns, id)].hasGeometry = FALSE]

\* Variant: the geometry of the listed nodes is deleted, their children are not visited.
RECURSIVE clean_tree_flat(_, _, _)
clean_tree_flat(acc, node_list, k) ==
    IF k > Len(node_list) \/ ~acc.ok THEN acc
    ELSE LET id == node_list[k]
             node == Node(acc.ns, id)
         IN  IF ~node.hasGeometry THEN [acc EXCEPT !.ok = FALSE]
             ELSE clean_tree_flat([ns |-> DelGeometry(acc.ns, id),
                                   visited |-> Append(acc.visited, id), ok |-> TRUE],
                                  node_list, k + 1)

RECURSIVE clean_tree(_, _, _)
clean_tree(acc, node_list, k) ==
    IF k > Len(node_list) \/ ~acc.ok THEN acc
    ELSE LET id == node_list[k]
             node == Node(acc.ns, id)
         IN  IF ~node.hasGeometry THEN [acc EXCEPT !.ok = FALSE]
             ELSE LET deleted == [ns |-> DelGeometry(acc.ns, id),
                                  visited |-> Append(acc.visited, id), ok |-> TRUE]
                      below == IF node.children # <<>>
                               THEN clean_tree(deleted, node.children, 1)
                               ELSE deleted
                  IN  clean_tree(below, node_list, k + 1)

(***************************************************************************)
(* Pass 3: the edge cells whose two ends are keys of the nodes dict.       *)
(***************************************************************************)
Connection(ns, cell) ==
    [source_id |-> cell.source, source_label |-> Node(ns, cell.source).label,
     target_id |-> cell.target, target_label |-> Node(ns, cell.target).label]

\* Variant: only the target of an edge is looked up; an unknown source gets no label.
ConnectionLoose(ns, cell) ==
    [source_id |-> cell.source,
     source_label |-> IF InNodes(ns, cell.source) THEN Node(ns, cell.source).label ELSE <<>>,
     target_id |-> cell.target, target_label |-> Node(ns, cell.target).label]

RECURSIVE ExtractEdgesTargetOnly(_, _, _)
ExtractEdgesTargetOnly(cells, ns, i) ==
    IF i > Len(cells) THEN <<>>
    ELSE LET rest == ExtractEdgesTargetOnly(cells, ns, i + 1)
         IN  IF cells[i].edge /\ InNodes(ns, cells[i].target)
             THEN <<ConnectionLoose(ns, cells[i])>> \o rest
             ELSE rest

RECURSIVE ExtractEdges(_, _, _)
ExtractEdges(cells, ns, i) ==
    IF i > Len(cells) THEN <<>>
    ELSE LET rest == ExtractEdges(cells, ns, i + 1)
         IN  IF /\ cells[i].edge
                /\ InNodes(ns, cells[i].source)
                /\ InNodes(ns, cells[i].target)
             THEN <<Connection(ns, cells[i])>> \o rest
             ELSE rest

(***************************************************************************)
(* json.dumps of the architecture list, flattened: one entry per emitted   *)
(* node in pre-order, with its nesting depth, the id of the node whose     *)
(* children list it was reached through (0 for a root) and whether it      *)
(* still has a geometry key.  A node reached again on its own path is a    *)
(* circular reference, which json.dumps rejects with ValueError.           *)
(***************************************************************************)
RECURSIVE Serialize(_, _, _, _, _)
Serialize(ns, node_list, k, via, path) ==
    IF k > Len(node_list) THEN <<>>
    ELSE LET id == node_list[k]
             node == Node(ns, id)
             entry == [id |-> id, label |-> node.label, depth |-> Cardinality(path),
                       via |-> via, geometry |-> node.hasGeometry, circular |-> id \in path]
             below == IF id \in path THEN <<>>
                      ELSE Serialize(ns, node.children, 1, id, path \cup {id})
         IN  <<entry>> \o below \o Serialize(ns, node_list, k + 1, via, path)

Architecture(ns, roots) == Serialize(ns, roots, 1, 0, {})

HasCircular(arch) == \E i \in 1..Len(arch) : arch[i].circular

AllKeys == {"schema_version", "diagram_name", "architecture", "connections"}

NoOutput ==
    [kind |-> "None", keys |-> {}, schema_version |-> "", diagram_name |-> "",
     architecture |-> <<>>, connections |-> <<>>]

DiagramName(d) == IF d.diagram = "named" THEN "diagram-1" ELSE "Untitled"

OutputSchema(d, ns, roots, es) ==
    [kind |-> "json", keys |-> AllKeys, schema_version |-> "3.0",
     diagram_name |-> DiagramName(d), architecture |-> Architecture(ns, roots),
     connections |-> es]

(***************************************************************************)
(* The input documents.                                                    *)
(*  GeoDocs:  MaxCells labelled vertex cells, every box over Coords/Sizes. *)
(*  LoadDocs: MaxCells - 1 vertex-like cells, each a sound vertex or one    *)
(*            with a single defect, followed by one edge cell whose ends   *)
(*            range over no reference (0) and every cell id; with and      *)
(*            without a <diagram> element and its name.                    *)
(*  BrokenDocs: markup that does not parse, or has no mxGraphModel/root.   *)
(***************************************************************************)
Boxes == {Box(x, y, w, h) : x \in Coords, y \in Coords, w \in Sizes, h \in Sizes}

Templates ==
    { [vertex |-> TRUE,  hasId |-> TRUE,  value |-> <<"a">>, geo |-> Box(0, 0, 1, 1)],
      [vertex |-> TRUE,  hasId |-> TRUE,  value |-> <<"sp", "a", "br">>, geo |-> Box(0, 0, 0, 0)],
      [vertex |-> TRUE,  hasId |-> TRUE,  value |-> <<"sp">>, geo |-> Box(1, 1, 1, 1)],
      [vertex |-> FALSE, hasId |-> TRUE,  value |-> <<"a">>, geo |-> Box(0, 0, 1, 1)],
      [vertex |-> TRUE,  hasId |-> FALSE, value |-> <<"a">>, geo |-> Box(0, 0, 1, 1)],
      [vertex |-> TRUE,  hasId |-> TRUE,  value |-> <<>>,    geo |-> Box(0, 0, 1, 1)],
      [vertex |-> TRUE,  hasId |-> TRUE,  value |-> <<"a">>, geo |-> NoGeo],
      [vertex |-> TRUE,  hasId |-> TRUE,  value |-> <<"a">>,
       geo |-> [Box(0, 0, 1, 1) EXCEPT !.x = Bad]],
      [vertex |-> TRUE,  hasId |-> TRUE,  value |-> <<"a">>,
       geo |-> [Box(0, 0, 1, 1) EXCEPT !.height = Bad]],
      [vertex |-> TRUE,  hasId |-> TRUE,  value |-> <<"a">>,
       geo |-> [Box(0, 0, 1, 1) EXCEPT !.x = Absent, !.width = Absent]] }

FromTemplate(i, t) == VertexCell(IF t.hasId THEN i ELSE 0, t.vertex, t.value, t.geo)

Document(wellFormed, hasGraphRoot, diagram, cells) ==
    [wellFormed |-> wellFormed, hasGraphRoot |-> hasGraphRoot, diagram |-> diagram,
     cells |-> cells]

GeoDocs ==
    { Document(TRUE, TRUE, "named", [i \in CellIdx |-> VertexCell(i, TRUE, <<"a">>, b[i])]) :
        b \in [CellIdx -> Boxes] }

LoadDocs ==
    { Document(TRUE, TRUE, dg,
               [i \in CellIdx |-> IF i < MaxCells THEN FromTemplate(i, t[i])
                                  ELSE EdgeCell(i, st[1], st[2])]) :
        t \in [1..(MaxCells - 1) -> Templates],
        st \in (0..MaxCells) \X (0..MaxCells),
        dg \in {"none", "noname", "named"} }

BrokenDocs ==
    {Document(FALSE, FALSE, "none", <<>>)}
    \cup {Document(TRUE, FALSE, dg, <<>>) : dg \in {"none", "noname", "named"}}

Docs == GeoDocs \cup LoadDocs \cup BrokenDocs

(***************************************************************************)
(* Idle values of the three groups of variables.                           *)
(***************************************************************************)
ApiOff ==
    /\ api_pc = "off"
    /\ host = <<>>
    /\ request = <<>>
    /\ tmpdir = <<>>
    /\ process = <<>>
    /\ response = <<>>

GenOff ==
    /\ gen_pc = "off"
    /\ gen_args = <<>>
    /\ attempt = 0
    /\ replies = <<>>
    /\ slept = 0
    /\ xml_content = <<>>

PipeOff ==
    /\ m_pc = "off"
    /\ dataset = <<>>
    /\ repos = <<>>
    /\ p1 = <<>>
    /\ conv = <<>>
    /\ uni = <<>>
    /\ steps = <<>>

(***************************************************************************)
(* The run of main() on one document.                                      *)
(***************************************************************************)
Init ==
    /\ ApiOff
    /\ GenOff
    /\ PipeOff
    /\ doc \in Docs
    /\ pc = "start"
    /\ nodes = <<>>
    /\ hierarchical_tree = <<>>
    /\ cleaned = <<>>
    /\ edges = <<>>
    /\ result = NoOutput
    /\ stdout = NoOutput
    /\ exit_code = -1

ReturnNone ==
    /\ result' = NoOutput
    /\ pc' = "returned"

\* ET.parse / getroot: ParseError and FileNotFoundError return None.
ParseXml ==
    /\ pc = "start"
    /\ IF doc.wellFormed
       THEN pc' = "parsed" /\ UNCHANGED result
       ELSE ReturnNone
    /\ UNCHANGED <<doc, nodes, hierarchical_tree, cleaned, edges, stdout, exit_code>>
    /\ UNCHANGED <<apiVars, genVars, pipeVars>>

\* Variant: a missing graph-model root is not noticed and the passes run on no cells.
FindGraphRootUnchecked ==
    /\ pc = "parsed"
    /\ pc' = "pass1"
    /\ UNCHANGED <<doc, nodes, hierarchical_tree, cleaned, edges, result, stdout, exit_code>>
    /\ UNCHANGED <<apiVars, genVars, pipeVars>>

\* root.find(".//mxGraphModel/root") is None: return None.
FindGraphRoot ==
    /\ pc = "parsed"
    /\ IF doc.hasGraphRoot
       THEN pc' = "pass1" /\ UNCHANGED result
       ELSE ReturnNone
    /\ UNCHANGED <<doc, nodes, hierarchical_tree, cleaned, edges, stdout, exit_code>>
    /\ UNCHANGED <<apiVars, genVars, pipeVars>>

Pass1 ==
    /\ pc = "pass1"
    /\ nodes' = ExtractVertices(doc.cells, 1, <<>>)
    /\ pc' = "pass2"
    /\ UNCHANGED <<doc, hierarchical_tree, cleaned, edges, result, stdout, exit_code>>
    /\ UNCHANGED <<apiVars, genVars, pipeVars>>

Pass2 ==
    /\ pc = "pass2"
    /\ nodes' = ResolveContainment(nodes)
    /\ pc' = "build"
    /\ UNCHANGED <<doc, hierarchical_tree, cleaned, edges, result, stdout, exit_code>>
    /\ UNCHANGED <<apiVars, genVars, pipeVars>>

BuildTree ==
    /\ pc = "build"
    /\ hierarchical_tree' = HierarchicalTree(nodes)
    /\ pc' = "clean"
    /\ UNCHANGED <<doc, nodes, cleaned, edges, result, stdout, exit_code>>
    /\ UNCHANGED <<apiVars, genVars, pipeVars>>

CleanTree ==
    /\ pc = "clean"
    /\ LET done == clean_tree([ns |-> nodes, visited |-> <<>>, ok |-> TRUE],
                              hierarchical_tree, 1)
       IN  /\ nodes' = done.ns
           /\ cleaned' = done.visited
           /\ pc' = IF done.ok THEN "pass3" ELSE "raised"
    /\ UNCHANGED <<doc, hierarchical_tree, edges, result, stdout, exit_code>>
    /\ UNCHANGED <<apiVars, genVars, pipeVars>>

Pass3 ==
    /\ pc = "pass3"
    /\ edges' = ExtractEdges(doc.cells, nodes, 1)
    /\ pc' = "emit"
    /\ UNCHANGED <<doc, nodes, hierarchical_tree, cleaned, result, stdout, exit_code>>
    /\ UNCHANGED <<apiVars, genVars, pipeVars>>

\* root.find("diagram") is None: .get raises AttributeError, which nothing catches.
Emit ==
    /\ pc = "emit"
    /\ IF doc.diagram = "none" \/ HasCircular(Architecture(nodes, hierarchical_tree))
       THEN pc' = "raised" /\ UNCHANGED result
       ELSE /\ result' = OutputSchema(doc, nodes, hierarchical_tree, edges)
            /\ pc' = "returned"
    /\ UNCHANGED <<doc, nodes, hierarchical_tree, cleaned, edges, stdout, exit_code>>
    /\ UNCHANGED <<apiVars, genVars, pipeVars>>

\* main(): print the JSON, or sys.exit(1) on None; an exception that escapes
\* parse_drawio_xml_v3 ends the interpreter with status 1 and prints nothing.
Main ==
    /\ pc \in {"returned", "raised"}
    /\ IF pc = "returned" /\ result.kind = "json"
       THEN stdout' = result /\ exit_code' = 0
       ELSE stdout' = stdout /\ exit_code' = 1
    /\ pc' = "exited"
    /\ UNCHANGED <<doc, nodes, hierarchical_tree, cleaned, edges, result>>
    /\ UNCHANGED <<apiVars, genVars, pipeVars>>

Next ==
    \/ ParseXml
    \/ FindGraphRoot
    \/ Pass1
    \/ Pass2
    \/ BuildTree
    \/ CleanTree
    \/ Pass3
    \/ Emit
    \/ Main

Spec == Init /\ [][Next]_vars

(***************************************************************************)
(* Vocabulary of the properties.                                           *)
(***************************************************************************)
LoadedIds == {nodes[i].id : i \in 1..Len(nodes)}

Occurrences(seq, id) == Cardinality({k \in 1..Len(seq) : seq[k] = id})

ArchIds(arch) == [k \in 1..Len(arch) |-> arch[k].id]

\* How many times id occurs in the children sequences of all nodes together.
ChildOccurrences(id) ==
    Cardinality({ik \in (1..Len(nodes)) \X CellIdx :
                    /\ ik[2] <= Len(nodes[ik[1]].children)
                    /\ nodes[ik[1]].children[ik[2]] = id})

ParentsOf(id) == {nodes[i].id : i \in {j \in 1..Len(nodes) : Occurrences(nodes[j].children, id) > 0}}

\* The inclusive boundary rule, written out on the geometry of two nodes.
BoxWithin(b, a) ==
    /\ b.geometry.x >= a.geometry.x
    /\ b.geometry.y >= a.geometry.y
    /\ b.geometry.x + b.geometry.width <= a.geometry.x + a.geometry.width
    /\ b.geometry.y + b.geometry.height <= a.geometry.y + a.geometry.height

BoxArea(a) == a.geometry.width * a.geometry.height

Containers(b) == {i \in 1..Len(nodes) : nodes[i].id # b.id /\ BoxWithin(b, nodes[i])}

\* Pass 2 has run and the geometry keys are still there.
Resolved == pc \in {"build", "clean"}

Emitted == result.kind = "json"

(***************************************************************************)
(* C1: in every emitted document every loaded Element id appears exactly   *)
(* once in the forest (roots and descendants together).                    *)
(***************************************************************************)
C1_ForestInvariant ==
    Emitted => \A id \in LoadedIds : Occurrences(ArchIds(result.architecture), id) = 1

(***************************************************************************)
(* C2: a parent A of B is another Element, B's box lies within A's box     *)
(* (shared edges allowed), and no Element of strictly smaller area than A  *)
(* contains B.                                                             *)
(***************************************************************************)
C2_TightestParent ==
    Resolved =>
        \A i \in 1..Len(nodes) : \A k \in 1..Len(nodes[i].children) :
            LET a == nodes[i]
                b == Node(nodes, a.children[k])
            IN  /\ a.id # b.id
                /\ BoxWithin(b, a)
                /\ \A j \in Containers(b) : ~(BoxArea(nodes[j]) < BoxArea(a))

\* A child was linked although a strictly larger box contains it as well.
C2_Witness ==
    /\ Resolved
    /\ \E i \in 1..Len(nodes) : \E k \in 1..Len(nodes[i].children) :
          \E j \in Containers(Node(nodes, nodes[i].children[k])) :
              BoxArea(nodes[j]) > BoxArea(nodes[i])

(***************************************************************************)
(* C3: an Element whose box is properly contained in no other Element's    *)
(* box (within it, and not the same box) is a root of the forest.          *)
(***************************************************************************)
ProperlyWithin(b, a) == BoxWithin(b, a) /\ b.geometry # a.geometry

C3_UncontainedIsRoot ==
    pc = "clean" =>
        \A i \in 1..Len(nodes) :
            (\A j \in 1..Len(nodes) : j # i => ~ProperlyWithin(nodes[i], nodes[j]))
                => Occurrences(hierarchical_tree, nodes[i].id) = 1

(***************************************************************************)
(* C4: after resolution every Element occurs in at most one children       *)
(* sequence and at most once there, it is a root exactly when it occurs in *)
(* none, and resolution never ends in an error: the one exception a run    *)
(* can end in is raised at emission, for a document without a <diagram>.   *)
(***************************************************************************)
C4_AtMostOneParent ==
    /\ Resolved => \A id \in LoadedIds : ChildOccurrences(id) <= 1
    /\ pc = "clean" =>
          \A id \in LoadedIds :
              /\ Occurrences(hierarchical_tree, id) = (IF ChildOccurrences(id) = 0 THEN 1 ELSE 0)
    /\ pc = "raised" => doc.diagram = "none"

\* Resolution left a root with a child, next to a root without any.
C4_Witness ==
    /\ pc = "clean"
    /\ \E id \in LoadedIds : ChildOccurrences(id) = 1
    /\ \E i \in 1..Len(nodes) :
          /\ Occurrences(hierarchical_tree, nodes[i].id) = 1
          /\ nodes[i].children # <<>>

(***************************************************************************)
(* C5: among several containing candidates of the same minimal area the    *)
(* parent is the one whose vertex cell comes first in the document.        *)
(***************************************************************************)
Tightest(b) == {j \in Containers(b) : \A m \in Containers(b) : BoxArea(nodes[j]) <= BoxArea(nodes[m])}

FirstCellOf(js) == CHOOSE j \in js : \A m \in js : nodes[j].id <= nodes[m].id

C5_FirstTieWins ==
    Resolved =>
        \A i \in 1..Len(nodes) :
            Cardinality(Tightest(nodes[i])) >= 2 =>
                ParentsOf(nodes[i].id) = {nodes[FirstCellOf(Tightest(nodes[i]))].id}

\* Coincident boxes D, E (in that order) with a smaller F inside both: F is D's child.
C5_Witness ==
    /\ Resolved
    /\ \E d, e, f \in 1..Len(nodes) :
          /\ nodes[d].id < nodes[e].id
          /\ nodes[d].geometry = nodes[e].geometry
          /\ ProperlyWithin(nodes[f], nodes[d])
          /\ Tightest(nodes[f]) = {d, e}
          /\ Occurrences(nodes[d].children, nodes[f].id) = 1

(***************************************************************************)
(* C6: an edge cell yields a connection exactly when its source and its    *)
(* target are both ids of loaded Elements, and the connection carries the  *)
(* labels of those two Elements.                                           *)
(***************************************************************************)
EdgeCells == {i \in 1..Len(doc.cells) : doc.cells[i].edge}

BothEndsLoaded(i) == doc.cells[i].source \in LoadedIds /\ doc.cells[i].target \in LoadedIds

C6_ConnectionFiltering ==
    Emitted =>
        LET conns == result.connections
        IN  /\ Len(conns) = Cardinality({i \in EdgeCells : BothEndsLoaded(i)})
            /\ \A i \in EdgeCells :
                  BothEndsLoaded(i) <=>
                      \E k \in 1..Len(conns) :
                          /\ conns[k].source_id = doc.cells[i].source
                          /\ conns[k].target_id = doc.cells[i].target
            /\ \A k \in 1..Len(conns) :
                  /\ conns[k].source_id \in LoadedIds
                  /\ conns[k].target_id \in LoadedIds
                  /\ conns[k].source_label = Node(nodes, conns[k].source_id).label
                  /\ conns[k].target_label = Node(nodes, conns[k].target_id).label

\* A connection between two Elements of different labels was emitted.
C6_Witness ==
    /\ Emitted
    /\ \E k \in 1..Len(result.connections) :
          result.connections[k].source_label # result.connections[k].target_label

(***************************************************************************)
(* C7: no Element of an emitted forest, root or descendant, still has its  *)
(* geometry; clean_tree deletes it from each emitted Element exactly once  *)
(* and never raises.                                                       *)
(***************************************************************************)
C7_GeometryStripped ==
    /\ pc = "clean" =>
          clean_tree([ns |-> nodes, visited |-> <<>>, ok |-> TRUE], hierarchical_tree, 1).ok
    /\ Emitted =>
          \A k \in 1..Len(result.architecture) :
              /\ ~result.architecture[k].geometry
              /\ Occurrences(cleaned, result.architecture[k].id) = 1

\* A document with a stripped Element two levels below a root was emitted.
C7_Witness ==
    /\ Emitted
    /\ \E k \in 1..Len(result.architecture) :
          result.architecture[k].depth = 2 /\ ~result.architecture[k].geometry

(***************************************************************************)
(* C8: a document that is not well formed or has no mxGraphModel/root      *)
(* gives no output (None is returned, main exits with status 1); whatever  *)
(* the path, what is returned and what is printed is either the complete   *)
(* four-field document or nothing.                                         *)
(***************************************************************************)
CompleteOrNothing(out) ==
    \/ out = NoOutput
    \/ /\ out.kind = "json"
       /\ out.keys = AllKeys
       /\ out.schema_version = "3.0"
       /\ pc \in {"returned", "exited"}

C8_AllOrNothing ==
    /\ CompleteOrNothing(result)
    /\ CompleteOrNothing(stdout)
    /\ (~doc.wellFormed \/ ~doc.hasGraphRoot) =>
          /\ result = NoOutput
          /\ stdout = NoOutput
          /\ pc \notin {"pass1", "pass2", "build", "clean", "pass3", "emit", "raised"}
          /\ pc = "exited" => exit_code = 1
    /\ pc = "exited" => (exit_code = 0 <=> stdout # NoOutput)
    /\ pc = "exited" => (stdout = result /\ exit_code \in {0, 1})

\* main has exited with status 1 and printed nothing for a document without graph-model root.
C8_Witness ==
    /\ pc = "exited"
    /\ doc.wellFormed
    /\ ~doc.hasGraphRoot
    /\ exit_code = 1
    /\ stdout = NoOutput

(***************************************************************************)
(* C9: only a cell marked as vertex, with a non-empty label and a geometry *)
(* whose x, y, width and height all coerce to numbers becomes an Element;  *)
(* any other cell is no Element and its id is no parent, no child and no   *)
(* connection endpoint.                                                    *)
(***************************************************************************)
Qualifies(cell) ==
    /\ cell.vertex
    /\ cell.value # <<>>
    /\ cell.geo.has
    /\ \A a \in {cell.geo.x, cell.geo.y, cell.geo.width, cell.geo.height} : a.k # "bad"

RejectedIds == {doc.cells[i].id : i \in {j \in 1..Len(doc.cells) : ~Qualifies(doc.cells[j])}}

C9_OnlyQualifiedCellsLoad ==
    /\ \A id \in LoadedIds :
          \E i \in 1..Len(doc.cells) : doc.cells[i].id = id /\ Qualifies(doc.cells[i])
    /\ Len(nodes) <= Cardinality({i \in 1..Len(doc.cells) : Qualifies(doc.cells[i])})
    /\ \A id \in RejectedIds :
          /\ id \notin LoadedIds
          /\ ChildOccurrences(id) = 0
          /\ Occurrences(hierarchical_tree, id) = 0
          /\ \A k \in 1..Len(edges) : edges[k].source_id # id /\ edges[k].target_id # id
          /\ Occurrences(ArchIds(result.architecture), id) = 0

\* A document was emitted whose edge cell named a cell rejected for its geometry.
C9_Witness ==
    /\ Emitted
    /\ Len(nodes) >= 1
    /\ \E i \in 1..Len(doc.cells) :
          /\ doc.cells[i].vertex
          /\ doc.cells[i].value # <<>>
          /\ doc.cells[i].geo.has
          /\ ~Qualifies(doc.cells[i])
          /\ \E e \in EdgeCells : doc.cells[e].source = doc.cells[i].id

(***************************************************************************)
(* C10: resolving containment a second time on the same Elements, in the   *)
(* same order, assigns every Element the parent it was assigned the first  *)
(* time: the second pass appends to every children sequence exactly what   *)
(* the first pass appended.                                                *)
(***************************************************************************)
C10_ResolveTwice ==
    pc = "build" =>
        LET again == ResolveContainment(nodes)
        IN  /\ NodeIds(again) = NodeIds(nodes)
            /\ \A i \in 1..Len(nodes) :
                  again[i].children = nodes[i].children \o nodes[i].children

\* Resolved Elements among which one had a choice between two tightest candidates.
C10_Witness ==
    /\ pc = "build"
    /\ \E i \in 1..Len(nodes) :
          /\ Cardinality(Tightest(nodes[i])) >= 2
          /\ ChildOccurrences(nodes[i].id) = 1

(***************************************************************************)
(* C11: a labelled vertex cell of zero width and height is loaded as an    *)
(* Element; such an Element is never the parent of another Element, and    *)
(* every box that includes its point (boundary inclusive) contains it.     *)
(***************************************************************************)
ZeroSized(n) == n.geometry.width = 0 /\ n.geometry.height = 0

IncludesPoint(a, z) ==
    /\ a.geometry.x <= z.geometry.x
    /\ z.geometry.x <= a.geometry.x + a.geometry.width
    /\ a.geometry.y <= z.geometry.y
    /\ z.geometry.y <= a.geometry.y + a.geometry.height

ZeroSizedCells ==
    {i \in 1..Len(doc.cells) :
        /\ Qualifies(doc.cells[i])
        /\ doc.cells[i].id # 0
        /\ Float(doc.cells[i].geo.width) = 0
        /\ Float(doc.cells[i].geo.height) = 0}

C11_ZeroSizeElement ==
    Resolved =>
        /\ \A i \in ZeroSizedCells : doc.cells[i].id \in LoadedIds
        /\ \A i \in 1..Len(nodes) :
              ZeroSized(nodes[i]) =>
                  /\ nodes[i].children = <<>>
                  /\ \A j \in 1..Len(nodes) :
                        (j # i /\ IncludesPoint(nodes[j], nodes[i]))
                            => is_contained(nodes[i].geometry, nodes[j].geometry)

(***************************************************************************)
(* C12: every well-formed document with the graph-model root container is  *)
(* emitted, with the diagram's name, or "Untitled" when the source gives   *)
(* none, and schema_version "3.0".                                         *)
(***************************************************************************)
C12_DiagramName ==
    (pc = "exited" /\ doc.wellFormed /\ doc.hasGraphRoot) =>
        /\ stdout.kind = "json"
        /\ stdout.schema_version = "3.0"
        /\ stdout.diagram_name = (IF doc.diagram = "named" THEN "diagram-1" ELSE "Untitled")

(***************************************************************************)
(* C19: the source_id and the target_id of every emitted connection are    *)
(* ids of Elements of the emitted forest.                                  *)
(***************************************************************************)
C19_ConnectionsInForest ==
    Emitted =>
        \A k \in 1..Len(result.connections) :
            /\ Occurrences(ArchIds(result.architecture), result.connections[k].source_id) >= 1
            /\ Occurrences(ArchIds(result.architecture), result.connections[k].target_id) >= 1

(***************************************************************************)
(* tools/api_server.py, POST /run-terraform (tools/api_run_terraform.py    *)
(* holds the same handler).  The host either lacks the docker binary, has  *)
(* it with the daemon down (docker run then exits 125), or runs the        *)
(* container; its disk may refuse the write of main.tf.  A request carries *)
(* the Terraform text and timeout_seconds (0 stands for None, no limit).   *)
(* Texts are token sequences, stripped with str.strip as in Strip.         *)
(***************************************************************************)
Hosts == [docker : {"missing", "daemon_down", "ok"}, disk_ok : BOOLEAN]

Requests == [terraform : {<<>>, <<"t">>}, timeout_seconds : {0, 1, 120}]

Texts == {<<>>, <<"o">>, <<"sp", "o", "sp">>}

NoProcess == [ran |-> FALSE, returncode |-> -1, seconds |-> 0, stdout |-> <<>>, stderr |-> <<>>]

\* What docker run can do on this host: exit code, run time, captured streams.
Processes(h) ==
    [ran : {TRUE},
     returncode : IF h.docker = "daemon_down" THEN {125} ELSE {0, 1},
     seconds : {0, 60, 200},
     stdout : Texts, stderr : Texts]

TimeoutExpired(req, p) == req.timeout_seconds # 0 /\ p.seconds > req.timeout_seconds

NoResponse == [http |-> 0, keys |-> {}, status |-> "", output |-> <<>>, error |-> <<>>, detail |-> ""]

Returned(status, keys, output, error) ==
    [http |-> 200, keys |-> keys, status |-> status, output |-> output, error |-> error,
     detail |-> ""]

HTTPException(code, detail) ==
    [http |-> code, keys |-> {"detail"}, status |-> "", output |-> <<>>, error |-> <<>>,
     detail |-> detail]

TimedOutText == <<"Terraform execution timed out">>

NoTmpdir == [exists |-> FALSE, written |-> FALSE, main_tf |-> <<>>]

\* The parser is not running.
ParserOff ==
    /\ doc = <<>>
    /\ pc = "off"
    /\ nodes = <<>>
    /\ hierarchical_tree = <<>>
    /\ cleaned = <<>>
    /\ edges = <<>>
    /\ result = NoOutput
    /\ stdout = NoOutput
    /\ exit_code = -1

ApiInit ==
    /\ ParserOff
    /\ GenOff
    /\ PipeOff
    /\ api_pc = "idle"
    /\ host \in Hosts
    /\ request = [terraform |-> <<>>, timeout_seconds |-> 0]
    /\ tmpdir = NoTmpdir
    /\ process = NoProcess
    /\ response = NoResponse

\* A request arrives: tempfile.mkdtemp().
Receive ==
    /\ api_pc \in {"idle", "done"}
    /\ \E req \in Requests : request' = req
    /\ tmpdir' = [exists |-> TRUE, written |-> FALSE, main_tf |-> <<>>]
    /\ process' = NoProcess
    /\ response' = NoResponse
    /\ api_pc' = "write"
    /\ UNCHANGED <<host, vars, genVars, pipeVars>>

\* open(tf_file, "w") and f.write; an OSError lands in "except Exception".
WriteMainTf ==
    /\ api_pc = "write"
    /\ IF host.disk_ok
       THEN /\ tmpdir' = [tmpdir EXCEPT !.written = TRUE, !.main_tf = request.terraform]
            /\ api_pc' = "run"
            /\ UNCHANGED response
       ELSE /\ response' = HTTPException(500, "Execution error")
            /\ api_pc' = "finally"
            /\ UNCHANGED tmpdir
    /\ UNCHANGED <<host, request, process, vars, genVars, pipeVars>>

RunResponse(req, p) ==
    IF TimeoutExpired(req, p)
    THEN Returned("failed", {"status", "error"}, <<>>, TimedOutText)
    ELSE IF p.returncode = 0
         THEN Returned("success", {"status", "output"}, Strip(p.stdout), <<>>)
         ELSE Returned("failed", {"status", "error"}, <<>>, Strip(p.stderr))

\* subprocess.run(cmd, ..., timeout=timeout_seconds) and the except clauses.
RunDocker ==
    /\ api_pc = "run"
    /\ IF host.docker = "missing"
       THEN /\ response' = HTTPException(500, "Docker not found on server")
            /\ UNCHANGED process
       ELSE \E p \in Processes(host) :
                /\ process' = p
                /\ response' = RunResponse(request, p)
    /\ api_pc' = "finally"
    /\ UNCHANGED <<host, request, tmpdir, vars, genVars, pipeVars>>

\* finally: shutil.rmtree(tmpdir, ignore_errors=True); the response goes out.
Finally ==
    /\ api_pc = "finally"
    /\ tmpdir' = NoTmpdir
    /\ api_pc' = "done"
    /\ UNCHANGED <<host, request, process, response, vars, genVars, pipeVars>>

ApiNext ==
    \/ Receive
    \/ WriteMainTf
    \/ RunDocker
    \/ Finally

ApiSpec == ApiInit /\ [][ApiNext]_allVars

(***************************************************************************)
(* C13: when Docker is not available on the host, or the Terraform command *)
(* fails (non-zero exit or timeout), the response body has status "failed" *)
(* and an error message; status "success" is returned only when the        *)
(* container exited with code 0.  (Stated for requests whose main.tf was   *)
(* written, the ones that get as far as docker.)                           *)
(***************************************************************************)
CommandFailed == process.ran /\ (TimeoutExpired(request, process) \/ process.returncode # 0)

C13_FailedStatus ==
    api_pc = "done" =>
        /\ (host.disk_ok /\ (host.docker # "ok" \/ CommandFailed)) =>
              (response.status = "failed" /\ "error" \in response.keys)
        /\ response.status = "success" => (process.ran /\ process.returncode = 0)

(***************************************************************************)
(* tf_to_xml_converter.generate_drawio_xml(terraform_code, retries, delay). *)
(* A reply of the text-generation collaborator is an error (the call or    *)
(* response.text raises) or a text: a sequence of the tokens "sp" (white   *)
(* space), "fx" (the fence ```xml), "f" (the fence ```), "doc" (one        *)
(* well-formed XML document) and "junk" (anything else).                   *)
(***************************************************************************)
MaxRetries == 2

ReplyTexts ==
    { <<>>, <<"doc">>, <<"sp", "doc", "sp">>, <<"fx", "sp", "doc", "sp", "f", "sp">>,
      <<"f", "doc", "f">>, <<"junk">>, <<"fx", "junk", "f">>, <<"doc", "doc">> }

Replies == {[kind |-> "error", text |-> <<>>]} \cup {[kind |-> "text", text |-> t] : t \in ReplyTexts}

GenArgs ==
    [retries : 0..MaxRetries, delay : {0, 5},
     api_key : {"unset", "placeholder", "set"}, configure_ok : BOOLEAN]

\* response.text.strip(), then the leading ```xml and the trailing ``` are cut off.
CutFenceXml(t) == IF t # <<>> /\ Head(t) = "fx" THEN Strip(Tail(t)) ELSE t

CutFence(t) == IF t # <<>> /\ t[Len(t)] = "f" THEN Strip(SubSeq(t, 1, Len(t) - 1)) ELSE t

CleanResponse(text) == CutFence(CutFenceXml(Strip(text)))

\* ET.fromstring(xml_content) returns: the text is exactly one document.
WellFormedXml(xml) == xml = <<"doc">>

\* Variant: the candidate is not validated.
FromStringAlwaysParses(xml) == TRUE

FromStringParses(xml) == WellFormedXml(xml)

NoneXml == [none |-> TRUE, text |-> <<>>]

GenInit ==
    /\ ParserOff
    /\ ApiOff
    /\ PipeOff
    /\ gen_pc = "called"
    /\ gen_args \in GenArgs
    /\ attempt = 0
    /\ replies = <<>>
    /\ slept = 0
    /\ xml_content = NoneXml

\* The API-key test and genai.configure / GenerativeModel: return None on failure.
Configure ==
    /\ gen_pc = "called"
    /\ gen_pc' = IF gen_args.api_key = "set" /\ gen_args.configure_ok THEN "loop" ELSE "returned"
    /\ UNCHANGED <<gen_args, attempt, replies, slept, xml_content, vars, apiVars, pipeVars>>

\* One pass of "for attempt in range(retries)".
Attempt ==
    /\ gen_pc = "loop"
    /\ attempt < gen_args.retries
    /\ \E reply \in Replies :
          /\ replies' = Append(replies, reply)
          /\ IF reply.kind = "text" /\ FromStringParses(CleanResponse(reply.text))
             THEN /\ xml_content' = [none |-> FALSE, text |-> CleanResponse(reply.text)]
                  /\ gen_pc' = "returned"
                  /\ UNCHANGED <<attempt, slept>>
             ELSE /\ slept' = IF attempt < gen_args.retries - 1
                              THEN slept + gen_args.delay ELSE slept
                  /\ attempt' = attempt + 1
                  /\ UNCHANGED <<gen_pc, xml_content>>
    /\ UNCHANGED <<gen_args, vars, apiVars, pipeVars>>

\* The loop is exhausted: return None.
GiveUp ==
    /\ gen_pc = "loop"
    /\ attempt >= gen_args.retries
    /\ gen_pc' = "returned"
    /\ UNCHANGED <<gen_args, attempt, replies, slept, xml_content, vars, apiVars, pipeVars>>

GenNext ==
    \/ Configure
    \/ Attempt
    \/ GiveUp

GenSpec == GenInit /\ [][GenNext]_allVars

(***************************************************************************)
(* C16: the collaborator is invoked at most retries times; the value       *)
(* returned is the first cleaned candidate that is well-formed XML, after  *)
(* which no further attempt is made; a candidate that is not well formed   *)
(* is never returned; None is returned exactly when every attempt failed.  *)
(***************************************************************************)
AttemptFailed(reply) == reply.kind = "error" \/ ~WellFormedXml(CleanResponse(reply.text))

C16_FirstValidCandidate ==
    /\ Len(replies) <= gen_args.retries
    /\ gen_pc # "returned" => \A k \in 1..Len(replies) : AttemptFailed(replies[k])
    /\ gen_pc = "returned" =>
          /\ xml_content.none <=> \A k \in 1..Len(replies) : AttemptFailed(replies[k])
          /\ ~xml_content.none =>
                /\ WellFormedXml(xml_content.text)
                /\ Len(replies) >= 1
                /\ xml_content.text = CleanResponse(replies[Len(replies)].text)
                /\ \A k \in 1..(Len(replies) - 1) : AttemptFailed(replies[k])

\* A fenced candidate was returned, cleaned, on the second attempt.
C16_Witness ==
    /\ gen_pc = "returned"
    /\ ~xml_content.none
    /\ Len(replies) = 2
    /\ replies[2].text # xml_content.text
    /\ replies[1].kind = "text"

(***************************************************************************)
(* The data-acquisition pipeline: master-script.py runs main_pipeline.py   *)
(* (step 1) and unify_dataset.py (step 2) as subprocesses; unify_dataset   *)
(* runs tf_to_xml_converter.py over the dataset and then the XML-to-JSON   *)
(* parser on each entry.  The dataset directory is the one both steps work *)
(* on: step 1 takes it from config.DATASET_DIR, the master script passes   *)
(* data-acquisition/dataset to step 2.                                     *)
(***************************************************************************)
MaxRepos == 2
RepoIds == 1..MaxRepos
\* One subdirectory the dataset may hold before the run starts.
ExtraId == MaxRepos + 1
EntryIds == 1..ExtraId

NoEntry ==
    [dir |-> FALSE, code_tf |-> FALSE, diagram_xml |-> FALSE, instruction_json |-> "none"]
ExtraEntries ==
    {NoEntry} \cup
    {[dir |-> TRUE, code_tf |-> c, diagram_xml |-> d, instruction_json |-> "none"] :
        c \in BOOLEAN, d \in BOOLEAN}
Datasets ==
    {[exists |-> x, entries |-> [e \in EntryIds |-> IF e = ExtraId THEN extra ELSE NoEntry]] :
        x \in BOOLEAN, extra \in ExtraEntries}

\* What subprocess.run can do with a script: run it, fail to find the
\* interpreter, or fail otherwise.
Launches == {"runs", "FileNotFoundError", "Exception"}
ExitResult(code) == IF code = "exit0" THEN "exit0" ELSE "CalledProcessError"

\* run_step returns True exactly when subprocess.run(check=True) returned.
run_step_unchecked(outcome) == outcome \in {"exit0", "CalledProcessError"}
run_step(outcome) == outcome = "exit0"

P1Off == [pc |-> "off", i |-> 0, successful_pairs |-> 0, outcomes |-> <<>>, code |-> "none"]
ConvOff == [pc |-> "off", i |-> 0, code |-> "none"]
UniOff ==
    [pc |-> "off", i |-> 0, successful_json_conversions |-> 0,
     failed_json_conversions |-> <<>>, tf_to_xml |-> "none", code |-> "none"]
StepsOff ==
    [step1 |-> "none", step2 |-> "none", started2 |-> FALSE,
     complete |-> FALSE, exit_status |-> "none"]

\* A cloned repository as the two processing stages see it.
Readmes ==
    {"no_api_key", "configure_error", "no_readme", "api_error", "empty_reply", "json"}
TfStates ==
    [tf : {"none", "unreadable", "present"},
     terraform : {"missing", "init_fails", "validate_fails", "error", "ok"}]
\* Where saving the pair can raise into the loop's except clause.
Faults == {"none", "makedirs", "open_instruction", "open_code"}

\* The cleaned reply text, or "" for None and for an empty reply.
process_repository_readme(readme) == IF readme = "json" THEN "readme" ELSE ""

find_and_combine_tf_files(t) == IF t.tf = "present" THEN "code" ELSE ""

validate_terraform_code(t) ==
    LET combined_code == find_and_combine_tf_files(t)
    IN  IF combined_code = "" THEN [is_valid |-> FALSE, code |-> ""]
        ELSE IF t.terraform = "ok" THEN [is_valid |-> TRUE, code |-> combined_code]
        ELSE [is_valid |-> FALSE, code |-> ""]

\* makedirs, write instruction.json, write code.tf, in that order.
SavePair(e, fault) ==
    IF fault = "makedirs" THEN e
    ELSE IF fault = "open_instruction" THEN [e EXCEPT !.dir = TRUE]
    ELSE IF fault = "open_code"
         THEN [e EXCEPT !.dir = TRUE, !.instruction_json = "readme"]
    ELSE [e EXCEPT !.dir = TRUE, !.instruction_json = "readme", !.code_tf = TRUE]

PipeInit ==
    /\ ParserOff
    /\ ApiOff
    /\ GenOff
    /\ m_pc = "start"
    /\ dataset \in {d \in Datasets : d.entries[ExtraId].dir => d.exists}
    /\ repos = <<>>
    /\ p1 = P1Off
    /\ conv = ConvOff
    /\ uni = UniOff
    /\ steps = StepsOff

(* master-script.py ********************************************************)
RunStep1 ==
    /\ m_pc = "start"
    /\ \E launch \in Launches :
          IF launch = "runs"
          THEN /\ m_pc' = "step1"
               /\ p1' = [p1 EXCEPT !.pc = "start"]
               /\ steps' = steps
          ELSE /\ m_pc' = "after1"
               /\ steps' = [steps EXCEPT !.step1 = launch]
               /\ p1' = p1
    /\ UNCHANGED <<dataset, repos, conv, uni, vars, apiVars, genVars>>

Step1Exits ==
    /\ m_pc = "step1"
    /\ p1.pc = "exited"
    /\ m_pc' = "after1"
    /\ steps' = [steps EXCEPT !.step1 = ExitResult(p1.code)]
    /\ UNCHANGED <<dataset, repos, p1, conv, uni, vars, apiVars, genVars>>

AfterStep1 ==
    /\ m_pc = "after1"
    /\ IF run_step(steps.step1)
       THEN /\ m_pc' = "start2"
            /\ steps' = steps
       ELSE /\ m_pc' = "exited"
            /\ steps' = [steps EXCEPT !.exit_status = "exit1"]
    /\ UNCHANGED <<dataset, repos, p1, conv, uni, vars, apiVars, genVars>>

RunStep2 ==
    /\ m_pc = "start2"
    /\ \E launch \in Launches :
          IF launch = "runs"
          THEN /\ m_pc' = "step2"
               /\ uni' = [uni EXCEPT !.pc = "start"]
               /\ steps' = [steps EXCEPT !.started2 = TRUE]
          ELSE /\ m_pc' = "after2"
               /\ steps' = [steps EXCEPT !.step2 = launch]
               /\ uni' = uni
    /\ UNCHANGED <<dataset, repos, p1, conv, vars, apiVars, genVars>>

Step2Exits ==
    /\ m_pc = "step2"
    /\ uni.pc = "exited"
    /\ m_pc' = "after2"
    /\ steps' = [steps EXCEPT !.step2 = ExitResult(uni.code)]
    /\ UNCHANGED <<dataset, repos, p1, conv, uni, vars, apiVars, genVars>>

AfterStep2 ==
    /\ m_pc = "after2"
    /\ m_pc' = "exited"
    /\ IF run_step(steps.step2)
       THEN steps' = [steps EXCEPT !.complete = TRUE, !.exit_status = "exit0"]
       ELSE steps' = [steps EXCEPT !.exit_status = "exit1"]
    /\ UNCHANGED <<dataset, repos, p1, conv, uni, vars, apiVars, genVars>>

(* main_pipeline.py ********************************************************)
\* Imports, setup_directories and the scrape.  A failed import ends the
\* script before anything is created; the scraper returns {} on any error.
StartPipeline ==
    /\ m_pc = "step1"
    /\ p1.pc = "start"
    /\ \E imports_ok \in BOOLEAN, n \in 0..MaxRepos :
          IF ~imports_ok
          THEN /\ p1' = [p1 EXCEPT !.pc = "exited", !.code = "exit1"]
               /\ UNCHANGED <<dataset, repos>>
          ELSE /\ dataset' = [dataset EXCEPT !.exists = TRUE]
               /\ repos' = [k \in 1..n |-> k]
               /\ IF n = 0
                  THEN p1' = [p1 EXCEPT !.pc = "exited", !.code = "exit0"]
                  ELSE p1' = [p1 EXCEPT !.pc = "loop", !.i = 1]
    /\ UNCHANGED <<m_pc, conv, uni, steps, vars, apiVars, genVars>>

\* One iteration of the loop over repos_to_process.
ProcessRepository ==
    /\ m_pc = "step1"
    /\ p1.pc = "loop"
    /\ p1.i <= Len(repos)
    /\ \E readme \in Readmes, t \in TfStates, fault \in Faults :
          LET r == repos[p1.i]
              instruction_json == process_repository_readme(readme)
              v == validate_terraform_code(t)
              outcome == [instruction |-> instruction_json # "",
                          is_valid |-> instruction_json # "" /\ v.is_valid]
              advanced == [p1 EXCEPT !.i = @ + 1, !.outcomes = Append(@, outcome)]
          IN  IF instruction_json = "" \/ ~v.is_valid
              THEN /\ p1' = advanced
                   /\ dataset' = dataset
              ELSE /\ dataset' = [dataset EXCEPT
                                     !.entries[r] = SavePair(@, fault)]
                   /\ p1' = IF fault = "none"
                            THEN [advanced EXCEPT !.successful_pairs = @ + 1]
                            ELSE advanced
    /\ UNCHANGED <<m_pc, repos, conv, uni, steps, vars, apiVars, genVars>>

FinishPipeline ==
    /\ m_pc = "step1"
    /\ p1.pc = "loop"
    /\ p1.i > Len(repos)
    /\ p1' = [p1 EXCEPT !.pc = "exited", !.code = "exit0"]
    /\ UNCHANGED <<m_pc, dataset, repos, conv, uni, steps, vars, apiVars, genVars>>

(* unify_dataset.py and tf_to_xml_converter.py *****************************)
\* run_tf_to_xml: True only when the converter ran and exited 0.  Its two
\* handlers return False; any other exception leaves unify_dataset.
run_tf_to_xml(outcome) == outcome = "exit0"

StartUnify ==
    /\ m_pc = "step2"
    /\ uni.pc = "start"
    /\ IF ~dataset.exists
       THEN /\ uni' = [uni EXCEPT !.pc = "exited", !.code = "exit1"]
            /\ conv' = conv
       ELSE \E launch \in Launches \cup {"CalledProcessError"} :
               IF launch = "runs"
               THEN /\ uni' = [uni EXCEPT !.pc = "converting"]
                    /\ conv' = [conv EXCEPT !.pc = "loop", !.i = 1]
               ELSE IF launch = "Exception"
               THEN /\ uni' = [uni EXCEPT !.pc = "exited", !.code = "exit1"]
                    /\ conv' = conv
               ELSE /\ uni' = [uni EXCEPT !.pc = "loop", !.i = 1, !.tf_to_xml = launch]
                    /\ conv' = conv
    /\ UNCHANGED <<m_pc, dataset, repos, p1, steps, vars, apiVars, genVars>>

\* get_tf_file_content: the content of the entry's .tf file, "" for None.
get_tf_file_content(e, readable) == IF e.code_tf /\ readable THEN "code" ELSE ""

\* One iteration of the converter's loop over the subdirectories.
ConvertEntry ==
    /\ conv.pc = "loop"
    /\ conv.i <= ExtraId
    /\ \E readable \in BOOLEAN, drawio_xml \in {"", "xml"}, write_ok \in BOOLEAN :
          LET e == dataset.entries[conv.i]
              tf_code == get_tf_file_content(e, readable)
          IN  IF ~e.dir \/ e.diagram_xml \/ tf_code = "" \/ drawio_xml = "" \/ ~write_ok
              THEN dataset' = dataset
              ELSE dataset' = [dataset EXCEPT !.entries[conv.i].diagram_xml = TRUE]
    /\ conv' = [conv EXCEPT !.i = @ + 1]
    /\ UNCHANGED <<m_pc, repos, p1, uni, steps, vars, apiVars, genVars>>

FinishConvert ==
    /\ conv.pc = "loop"
    /\ conv.i > ExtraId
    /\ conv' = [conv EXCEPT !.pc = "exited", !.code = "exit0"]
    /\ uni' = [uni EXCEPT !.pc = "loop", !.i = 1, !.tf_to_xml = "exit0"]
    /\ UNCHANGED <<m_pc, dataset, repos, p1, steps, vars, apiVars, genVars>>

\* run_xml_to_json: True only when the parser exited 0 and its output was
\* written; a write error other than FileNotFoundError is not handled.
ParserRuns == {"exit0", "CalledProcessError", "FileNotFoundError", "write_error"}
run_xml_to_json(outcome) == outcome = "exit0"

\* One iteration of the loop that verifies instruction.json.
VerifyEntry ==
    /\ m_pc = "step2"
    /\ uni.pc = "loop"
    /\ uni.i <= ExtraId
    /\ LET e == dataset.entries[uni.i]
           next == [uni EXCEPT !.i = @ + 1]
       IN  IF ~e.dir
           THEN /\ uni' = next
                /\ dataset' = dataset
           ELSE IF e.instruction_json # "none"
           THEN /\ uni' = [next EXCEPT !.successful_json_conversions = @ + 1]
                /\ dataset' = dataset
           ELSE IF ~e.diagram_xml
           THEN /\ uni' = next
                /\ dataset' = dataset
           ELSE \E outcome \in ParserRuns :
                   IF outcome = "write_error"
                   THEN /\ uni' = [uni EXCEPT !.pc = "exited", !.code = "exit1"]
                        /\ dataset' = dataset
                   ELSE IF run_xml_to_json(outcome)
                   THEN /\ uni' = [next EXCEPT !.successful_json_conversions = @ + 1]
                        /\ dataset' = [dataset EXCEPT
                                          !.entries[uni.i].instruction_json = "parser"]
                   ELSE /\ uni' = [next EXCEPT
                                      !.failed_json_conversions = Append(@, uni.i)]
                        /\ dataset' = dataset
    /\ UNCHANGED <<m_pc, repos, p1, conv, steps, vars, apiVars, genVars>>

FinishUnify ==
    /\ m_pc = "step2"
    /\ uni.pc = "loop"
    /\ uni.i > ExtraId
    /\ uni' = [uni EXCEPT !.pc = "exited", !.code = "exit0"]
    /\ UNCHANGED <<m_pc, dataset, repos, p1, conv, steps, vars, apiVars, genVars>>

PipeNext ==
    \/ RunStep1
    \/ Step1Exits
    \/ AfterStep1
    \/ RunStep2
    \/ Step2Exits
    \/ AfterStep2
    \/ StartPipeline
    \/ ProcessRepository
    \/ FinishPipeline
    \/ StartUnify
    \/ ConvertEntry
    \/ FinishConvert
    \/ VerifyEntry
    \/ FinishUnify

PipeSpec == PipeInit /\ [][PipeNext]_allVars

(***************************************************************************)
(* Claims about the data-acquisition pipeline.                             *)
(***************************************************************************)
Entries == dataset.entries
Subdirectories == {e \in EntryIds : Entries[e].dir}
StepFailed(outcome) == outcome \in {"CalledProcessError", "FileNotFoundError", "Exception"}

\* C14: when the master pipeline completes, every dataset entry that has a
\* diagram.xml has an instruction.json created in step 2 by the XML-to-JSON
\* parser from that diagram, replacing the README-derived one of step 1
\* (stated for the runs in which no XML-to-JSON conversion failed).
C14_FinalInstruction ==
    (steps.complete /\ uni.failed_json_conversions = <<>>) =>
        \A e \in Subdirectories :
            Entries[e].diagram_xml => Entries[e].instruction_json = "parser"

\* C15: after unify_dataset's main returns for an existing dataset
\* directory, every subdirectory has code.tf, diagram.xml and
\* instruction.json (stated for the subdirectories that hold code.tf, in
\* the runs in which the converter script ran to its end).
C15_AllThreeFiles ==
    (uni.pc = "exited" /\ uni.code = "exit0" /\ uni.tf_to_xml = "exit0") =>
        \A e \in Subdirectories :
            Entries[e].code_tf =>
                /\ Entries[e].diagram_xml
                /\ Entries[e].instruction_json # "none"

\* C17: step 2 is started only after step 1 exited with status 0; a failed
\* step (non-zero exit, missing script, other error) makes the master script
\* exit with status 1 without running a later step; PIPELINE COMPLETE is
\* reported only after both steps exited with status 0.
C17_StepOrdering ==
    /\ (steps.started2 \/ uni.pc # "off" \/ conv.pc # "off") =>
          (steps.step1 = "exit0" /\ p1.pc = "exited" /\ p1.code = "exit0")
    /\ (m_pc = "exited" /\ StepFailed(steps.step1)) =>
          /\ steps.exit_status = "exit1"
          /\ ~steps.started2
          /\ steps.step2 = "none"
          /\ uni = UniOff
          /\ ~steps.complete
    /\ (m_pc = "exited" /\ StepFailed(steps.step2)) =>
          (steps.exit_status = "exit1" /\ ~steps.complete)
    /\ steps.complete =>
          (steps.step1 = "exit0" /\ steps.step2 = "exit0" /\ uni.code = "exit0")
    /\ m_pc = "exited" =>
          (StepFailed(steps.step1) \/ StepFailed(steps.step2) \/ steps.complete)

\* Step 2 was started after a clean step 1, failed, and the master script
\* exited with status 1.
C17_Witness ==
    /\ m_pc = "exited"
    /\ steps.step1 = "exit0"
    /\ steps.started2
    /\ steps.step2 = "CalledProcessError"
    /\ steps.exit_status = "exit1"

HoldsBoth(e) == Entries[e].instruction_json # "none" /\ Entries[e].code_tf

\* C18: after run_pipeline has processed a repository, its entry directory
\* exists only if README processing returned an instruction and validation
\* reported valid, the directory holds both instruction.json and code.tf,
\* and successful_pairs is the number of entries holding both files.
C18_WholePairs ==
    (m_pc = "step1" /\ p1.pc \in {"loop", "exited"}) =>
        /\ \A k \in 1..Len(p1.outcomes) :
              Entries[repos[k]].dir =>
                  /\ p1.outcomes[k].instruction
                  /\ p1.outcomes[k].is_valid
                  /\ HoldsBoth(repos[k])
        /\ p1.successful_pairs = Cardinality({e \in EntryIds : HoldsBoth(e)})

====
